---- MODULE Spec2Model ----
(***************************************************************************)
(* The unified lead store of the scraper repository:                       *)
(*   src/database/mongodb_manager.py   (MongoDBManager)                    *)
(*   src/database/cleanup_duplicates.py (cleanup_duplicates)               *)
(* and the YouTube scraper that feeds it:                                  *)
(*   src/yt_scraper/main.py            (YouTubeScraperInterface)           *)
(*   src/yt_scraper/browser_manager.py (YouTubeBrowserManager)             *)
(* A MongoDB collection is a sequence of documents in natural (insertion)  *)
(* order.  Every store call of the code (find_one, insert_one, update_one, *)
(* replace_one, delete_many, aggregate) is one atomic step; the Python     *)
(* code between two store calls of one caller belongs to the step of the   *)
(* store call that follows it.                                             *)
(***************************************************************************)
EXTENDS Integers, Sequences, FiniteSets, TLC

VARIABLES
    unified,      \* unified_leads collection: Seq of documents, natural order
    sources,      \* the platform source collections: Seq of raw documents
    urlIndex,     \* TRUE iff the unique index on unified_leads.url exists
    nextId,       \* next ObjectId the driver hands out
    clock,        \* datetime.utcnow() / the server's $currentDate
    workers,      \* callers of insert_and_transform_to_unified
    dd,           \* a running cleanup_duplicates()
    en,           \* a running enrich_unified_leads_from_sources()
    hist,         \* history: what the sweeps saw and whether they were raced
    calls,        \* number of operations started so far
    yt,           \* YouTubeScraperInterface: its semaphore and the tasks of a batch
    bm            \* YouTubeBrowserManager: the context pool and who holds a context

vars == <<unified, sources, urlIndex, nextId, clock, workers, dd, en, hist, calls, yt, bm>>

\* the variables of the lead store
store == <<unified, sources, urlIndex, nextId, clock, workers, dd, en, hist, calls>>

----------------------------------------------------------------------------
(* Bounds of the model *)

MaxDocs == 4          \* ObjectIds handed out for unified_leads
MaxClock == 2         \* ticks of the clock
MaxBatch == 2         \* length of a source_data / leads_data list
MaxSourceDocs == 1    \* documents over all source collections
MaxCalls == 3         \* operations started in one behaviour
MaxSweeps == 2        \* sweeps of one kind started by one process
MaxRawDocs == 3       \* documents put into the source collections one by one
MaxUrls == 4          \* urls handed to scrape_multiple_urls
MaxContextIds == 6    \* browser contexts created in one behaviour
max_contexts == 2     \* YouTubeBrowserManager(max_contexts=...)
max_operations_per_context == 2   \* YouTubeBrowserManager(max_operations_per_context=...)

NoTime == 0           \* a timestamp that is absent ("" / missing key)

\* the configuration constants of src/yt_scraper/main.py
CONCURRENCY_LIMIT == 3
BATCH_SIZE == 5
RETRY_ATTEMPTS == 3
RETRY_BACKOFF_FACTOR == 2

----------------------------------------------------------------------------
(* Values *)

U1 == "https://x.com/a"
U2 == "https://y.com/c"
IG1 == "https://www.instagram.com/n1"
EA == "a@x.com"
EB == "b@x.com"
P1 == "+1"

Worker == {"w1", "w2"}

\* the processes that run cleanup_duplicates(); s1 is the one whose scan the
\* history keeps
Sweeper == {"s1", "s2"}

\* keys of transform_functions
TransformPlatforms == {"instagram", "linkedin", "youtube", "web", "facebook", "twitter"}

Range(s) == {s[i] : i \in 1..Len(s)}

\* Python's "x or y" on strings: the first truthy operand, else the last
Or(x, y) == IF x # "" THEN x ELSE y

\* list(set): the order of a Python set's elements is not defined
Perms(S) == {s \in [1..Cardinality(S) -> S] : Range(s) = S}

\* list(dict.fromkeys(l)): drop later duplicates, keep the first occurrences
RECURSIVE FromKeys(_)
FromKeys(l) ==
    IF l = <<>> THEN <<>>
    ELSE LET r == FromKeys(SubSeq(l, 1, Len(l) - 1))
             x == l[Len(l)]
         IN IF x \in Range(r) THEN r ELSE Append(r, x)

\* [x] if x else []
ListOf(x) == IF x # "" THEN <<x>> ELSE <<>>

----------------------------------------------------------------------------
(* Raw scraper records.  A key the scraper did not set is "" (strings),    *)
(* <<>> (lists) or NoTime; every reader of the code treats a missing key,  *)
(* None and "" alike (dict.get defaults, truthiness tests, the clean-up).  *)
(* For web records url is source_url, full_name is business_name, emails   *)
(* is email, phone_numbers is phone and scraped_at is extraction_timestamp.*)
(* social_media_handles tells the JSON type of that key's value: "map" (a  *)
(* dict, also the default of a missing key), "null" or "list".             *)

NoRaw ==
    [platform |-> "", url |-> "", username |-> "", full_name |-> "",
     author_name |-> "", channel_name |-> "", emails |-> <<>>,
     phone_numbers |-> <<>>, email |-> "", phone |-> "",
     business_email |-> "", business_phone_number |-> "", scraped_at |-> NoTime,
     social_media_handles |-> "map", primary_name |-> "None"]

\* the raw records of the model: two LinkedIn records of one url with
\* different names and contact values, a LinkedIn placeholder page, a Facebook
\* record of the same url without contact values, and two web records of one
\* url whose extraction timestamps are their own
L1 == [NoRaw EXCEPT !.platform = "linkedin", !.url = U1, !.username = "n1",
                    !.full_name = "Ann", !.emails = <<EA>>]
L2 == [NoRaw EXCEPT !.platform = "linkedin", !.url = U1, !.username = "n1",
                    !.author_name = "Bob", !.emails = <<EB>>,
                    !.phone_numbers = <<P1>>]
L3 == [NoRaw EXCEPT !.platform = "linkedin", !.url = U2, !.full_name = "Sign Up",
                    !.emails = <<EA>>]
F1 == [NoRaw EXCEPT !.platform = "facebook", !.url = U1, !.username = "n1",
                    !.full_name = "Ann"]
W1 == [NoRaw EXCEPT !.platform = "web", !.url = U2, !.full_name = "Cy",
                    !.emails = <<EB, EB>>, !.scraped_at = 1]
W2 == [NoRaw EXCEPT !.platform = "web", !.url = U2, !.full_name = "Cy",
                    !.emails = <<EA>>, !.scraped_at = 2]

RawData == {L1, L2, L3, F1, W1, W2}

\* records that put the transforms to the test: Instagram without a username
\* and with an email listed twice, YouTube with social_media_handles null and
\* with a map, LinkedIn with a placeholder full_name beside a real
\* author_name and with a placeholder in capitals and blanks, Facebook and
\* Twitter without a url
I0 == [NoRaw EXCEPT !.platform = "instagram", !.full_name = "Dee", !.emails = <<EB>>]
I1 == [NoRaw EXCEPT !.platform = "instagram", !.username = "n1", !.full_name = "Ann",
                    !.emails = <<EA, EA>>, !.phone_numbers = <<P1>>]
Y0 == [NoRaw EXCEPT !.platform = "youtube", !.url = U2, !.channel_name = "Cy",
                    !.email = EA, !.social_media_handles = "null"]
Y1 == [NoRaw EXCEPT !.platform = "youtube", !.url = U2, !.channel_name = "Cy",
                    !.email = EA]
L5 == [NoRaw EXCEPT !.platform = "linkedin", !.url = U2, !.full_name = "Sign Up",
                    !.author_name = "Bob", !.emails = <<EB>>]
L6 == [NoRaw EXCEPT !.platform = "linkedin", !.url = U2, !.full_name = " LOGIN ",
                    !.emails = <<EB>>]
F2 == [NoRaw EXCEPT !.platform = "facebook", !.full_name = "Dee", !.email = EB]
T0 == [NoRaw EXCEPT !.platform = "twitter", !.full_name = "Dee", !.email = EA]

WideRaw == RawData \cup {I0, I1, Y0, Y1, L5, L6, F2, T0}

\* a LinkedIn source record of the url of L1 whose username was not scraped
L4 == [NoRaw EXCEPT !.platform = "linkedin", !.url = U1, !.full_name = "Ann",
                    !.emails = <<EB>>]

\* the records the scrapers write to their source collections
SourceData == {L1, L4, W1}

\* the records upserted next to the enrichment sweep: a lead without url and
\* username among them
EnrichRaw == {L1, L2, F1, F2, W2}

\* one url submitted under two platform tags
TwoTags == {L2, F1}

\* the records handed to insert_<platform>_lead
SingleData == {L1, L4, W1, W2, F1, I1}

\* a Twitter profile, and the same profile scraped again with another email
T1 == [NoRaw EXCEPT !.platform = "twitter", !.url = U1, !.username = "n1",
                    !.full_name = "Ann", !.email = EA]
T2 == [T1 EXCEPT !.email = EB]

\* two leads of different urls, for a sweep that has more than one lead
TwoLeads == {L2, W2}

\* web records with ai_leads[0].organization_info.primary_name (primary_name;
\* "None" when there is no such value) next to business_name (full_name): a
\* structured name, an empty one, a blank one, none, and neither name
WA == [NoRaw EXCEPT !.platform = "web", !.url = U1, !.primary_name = "Acme",
                    !.full_name = "Cy"]
WB == [NoRaw EXCEPT !.platform = "web", !.url = U2, !.primary_name = "",
                    !.full_name = "Cy", !.emails = <<EA>>]
WC == [NoRaw EXCEPT !.platform = "web", !.url = U1, !.primary_name = " ",
                    !.full_name = "Cy", !.emails = <<EB>>]
WD == [NoRaw EXCEPT !.platform = "web", !.url = U2, !.full_name = " LOGIN "]
WE == [NoRaw EXCEPT !.platform = "web", !.url = U1, !.primary_name = "Acme"]
WF == [NoRaw EXCEPT !.platform = "web", !.url = U2, !.emails = <<EB>>]

FallbackData == {WA, WB, WC, WD, WE, WF, W1}

----------------------------------------------------------------------------
(* Schema Normalizer *)

\* name.strip().lower() on the display names of the model
StripLower(name) ==
    CASE name = "Sign Up" -> "sign up"
      [] name = " LOGIN " -> "login"
      [] name = "Dee" -> "dee"
      [] name = "Ann" -> "ann"
      [] name = "Bob" -> "bob"
      [] name = "Cy" -> "cy"
      [] OTHER -> name

invalid_names ==
    {"sign up", "signup", "log in", "login", "register", "join now", "get started",
     "create account", "sign in", "signin", "continue", "next", "submit", "loading",
     "please wait", "error", "page not found", "404", "access denied", "unauthorized",
     "linkedin", "connect", "follow", "view profile"}

is_invalid_linkedin_data(name) ==
    LET full_name == IF name # "" THEN StripLower(name) ELSE ""
    IN full_name = "" \/ full_name \in invalid_names

\* f"https://www.instagram.com/{username}" if username else ""
InstagramUrl(username) ==
    CASE username = "" -> ""
      [] username = "n1" -> IG1
      [] OTHER -> username

\* the list filter of _clean_unified_data: items that are None or '' are dropped
CleanList(l) == SelectSeq(l, LAMBDA x : x # "")

\* the additional (classification) fields of the unified schema
additional_fields ==
    {"industry", "revenue", "lead_category", "lead_sub_category", "company_name",
     "company_type", "decision_makers", "bdr", "product_interests", "timeline",
     "interest_level"}

\* the unified document a transform builds, after _clean_unified_data; the
\* profile, content and classification fields the model keeps are full_name
\* (profile), username (profile) and company_name (classification).  absent
\* names the additional fields the document has no key for: none, since
\* _clean_unified_data adds every missing one as None
UnifiedDoc(url, platform, username, full_name, company_name, emails, phones, scraped_at) ==
    [_id |-> 0, url |-> url, platform |-> platform, username |-> username,
     full_name |-> full_name, company_name |-> company_name,
     emails |-> CleanList(emails), phone_numbers |-> CleanList(phones),
     scraped_at |-> scraped_at, updated_at |-> NoTime, absent |-> {}]

\* None: a transform's rejected result, find_one's "no document"
None == UnifiedDoc("", "", "", "", "", <<>>, <<>>, NoTime)

IsNone(doc) == doc.platform = ""

\* a transform that leaves by an exception (AttributeError, TypeError)
Raised == [None EXCEPT !.platform = "exception"]

IsRaised(doc) == doc.platform = "exception"

transform_instagram_to_unified(d, now) ==
    UnifiedDoc(InstagramUrl(d.username), "instagram", d.username, d.full_name,
               d.full_name, d.emails, d.phone_numbers, d.scraped_at)

transform_linkedin_to_unified(d, now) ==
    IF is_invalid_linkedin_data(Or(d.author_name, d.full_name)) THEN None
    ELSE UnifiedDoc(d.url, "linkedin", d.username, Or(d.full_name, d.author_name),
                    d.full_name, d.emails, d.phone_numbers, now)

\* social_media_data.get(...) and social_media_data.items() are called on
\* whatever the key holds: anything but a dict has no such attribute
transform_youtube_to_unified(d, now) ==
    IF d.social_media_handles # "map" THEN Raised
    ELSE UnifiedDoc(d.url, "youtube", "", d.channel_name, d.channel_name,
                    ListOf(d.email), <<>>, now)

\* str(value).strip()
Strip(value) ==
    CASE value = " " -> ""
      [] value = " LOGIN " -> "LOGIN"
      [] OTHER -> value

\* get_value_with_fallback(primary_path, fallback_key, default_value): current
\* is what the walk along primary_path in ai_leads[0] ends with, "None" when
\* a key is missing or holds None; fallback_value is web_data.get(fallback_key)
get_value_with_fallback(current, fallback_value, default_value) ==
    IF current # "None"
    THEN IF current # "" THEN Strip(current) ELSE default_value
    ELSE IF fallback_value # "" THEN Strip(fallback_value) ELSE default_value

\* extract_emails / extract_phones: the flat list, stripped, without duplicates
transform_web_to_unified(d, now) ==
    UnifiedDoc(d.url, "web", "",
               get_value_with_fallback(d.primary_name, d.full_name, ""),
               get_value_with_fallback(d.primary_name, d.full_name, ""),
               FromKeys(CleanList(d.emails)), FromKeys(CleanList(d.phone_numbers)),
               IF d.scraped_at # NoTime THEN d.scraped_at ELSE now)

transform_facebook_to_unified(d, now) ==
    UnifiedDoc(d.url, "facebook", d.username, d.full_name, d.full_name,
               ListOf(d.email), ListOf(d.phone), now)

transform_twitter_to_unified(d, now) ==
    UnifiedDoc(d.url, "twitter", d.username, d.full_name, d.full_name,
               ListOf(d.email), ListOf(d.phone), now)

\* transform_functions.get(platform)(data)
Transform(platform, d, now) ==
    CASE platform = "instagram" -> transform_instagram_to_unified(d, now)
      [] platform = "linkedin" -> transform_linkedin_to_unified(d, now)
      [] platform = "youtube" -> transform_youtube_to_unified(d, now)
      [] platform = "web" -> transform_web_to_unified(d, now)
      [] platform = "facebook" -> transform_facebook_to_unified(d, now)
      [] platform = "twitter" -> transform_twitter_to_unified(d, now)

----------------------------------------------------------------------------
(* The unified collection as a store *)

Urls(coll) == {coll[i].url : i \in 1..Len(coll)}

Count(coll, url) == Cardinality({i \in 1..Len(coll) : coll[i].url = url})

\* index of the first document, in natural order, whose url is url; 0 if none
First(coll, url) ==
    IF \E i \in 1..Len(coll) : coll[i].url = url
    THEN CHOOSE i \in 1..Len(coll) :
            coll[i].url = url /\ \A j \in 1..(i - 1) : coll[j].url # url
    ELSE 0

FirstId(coll, id) ==
    IF \E i \in 1..Len(coll) : coll[i]._id = id
    THEN CHOOSE i \in 1..Len(coll) : coll[i]._id = id
    ELSE 0

\* an insert_one that never raises: the store without its identity constraint
DuplicateKeyError_Never(coll, url) == FALSE

\* insert_one raises DuplicateKeyError: only the unique index on url makes it
DuplicateKeyError(coll, url) == urlIndex /\ url \in Urls(coll)

\* unified_collection.create_index([("url", 1)], unique=True) can be built
NoDuplicateUrl(coll) ==
    \A i, j \in 1..Len(coll) : coll[i].url = coll[j].url => i = j

\* the sweeps that are under way, other than who
Active(who) ==
    {s \in (Sweeper \cup {"enrich"}) \ {who} :
        \/ s \in Sweeper /\ dd[s].pc # "idle"
        \/ s = "enrich" /\ en.pc # "idle"}

\* the dedup sweeps, other than who, that are between their scan and their end
Crossed(who) == {s \in Sweeper \ {who} : dd[s].pc \in {"delete", "replace"}}

\* a write to unified_leads by who lands in every sweep that is under way
Raced(who) ==
    [hist EXCEPT !.raced = @ \cup Active(who), !.crossed = @ \cup Crossed(who)]

----------------------------------------------------------------------------
(* insert_and_transform_to_unified *)

\* new_contact_info of line 1567, and the empty one
NoContact == [emails |-> <<>>, phone_numbers |-> <<>>]

ContactOf(doc) == [emails |-> doc.emails, phone_numbers |-> doc.phone_numbers]

\* a caller: where it is, and the locals it still reads (the url and the
\* contact lists of unified_data, the sets read from existing_lead)
IdleWorker ==
    [pc |-> "idle", platform |-> "", todo |-> 0, url |-> "",
     new_contact_info |-> NoContact, existing_emails |-> {},
     existing_phone_numbers |-> {}, new_info |-> FALSE, success_count |-> 0,
     updated_count |-> 0, failure_count |-> 0]

SeqsUpTo(S, n) == UNION {[1..k -> S] : k \in 1..n}

RawOf(Data, platform) == {r \in Data : r.platform = platform}

\* the return of insert_and_transform_to_unified: the locals are gone, the
\* counts stay with the caller
Return(me) ==
    [me EXCEPT !.pc = "done", !.platform = "", !.url = "",
               !.new_contact_info = NoContact, !.existing_emails = {},
               !.existing_phone_numbers = {}]

\* a caller starts insert_and_transform_to_unified(source_data, platform) with
\* len(source_data) = n; the records are drawn when the loop reaches them
Call(w, platform, n) ==
    /\ workers[w].pc \in {"idle", "done"}
    /\ w = "w2" => workers["w1"].pc \notin {"idle", "done"}
    /\ workers' = [workers EXCEPT ![w] =
          IF platform \in TransformPlatforms
          THEN [IdleWorker EXCEPT !.pc = "loop", !.platform = platform, !.todo = n]
          ELSE [IdleWorker EXCEPT !.pc = "done", !.platform = platform,
                                  !.failure_count = n]]
    /\ UNCHANGED <<unified, sources, urlIndex, nextId, clock, dd, en, hist, yt, bm>>
    /\ calls < MaxCalls
    /\ calls' = calls + 1

\* one turn of the loop on the record data: transform, then insert_one; an
\* exception of the transform is caught and counted as a failure (line 1585); a
\* record that carries its own scrape time was scraped before it gets here
Process(w, data) ==
    LET me == workers[w]
        unified_data == Transform(me.platform, data, clock)
        turned == [me EXCEPT !.todo = @ - 1]
        after(x) == IF x.todo = 0 THEN Return(x) ELSE x
    IN /\ me.pc = "loop"
       /\ data.scraped_at <= clock
       /\ IF IsRaised(unified_data)
          THEN /\ workers' = [workers EXCEPT ![w] =
                     after([turned EXCEPT !.failure_count = @ + 1])]
               /\ UNCHANGED <<unified, nextId, hist>>
          ELSE IF IsNone(unified_data)
          THEN /\ workers' = [workers EXCEPT ![w] = after(turned)]
               /\ UNCHANGED <<unified, nextId, hist>>
          ELSE IF DuplicateKeyError(unified, unified_data.url)
          THEN /\ workers' = [workers EXCEPT ![w] =
                     IF unified_data.url # ""
                     THEN [turned EXCEPT !.pc = "find", !.url = unified_data.url,
                                         !.new_contact_info = ContactOf(unified_data)]
                     ELSE Return([turned EXCEPT !.failure_count = @ + 1])]
               /\ UNCHANGED <<unified, nextId, hist>>
          ELSE /\ nextId <= MaxDocs
               /\ unified' = Append(unified, [unified_data EXCEPT !._id = nextId])
               /\ nextId' = nextId + 1
               /\ hist' = Raced("upsert")
               /\ workers' = [workers EXCEPT ![w] =
                     after([turned EXCEPT !.success_count = @ + 1])]
       /\ UNCHANGED <<sources, urlIndex, clock, dd, en, calls, yt, bm>>

\* the incoming contact data holds a value the stored document lacks
HasNew(existing_lead, new_contact_data) ==
    \/ ~ (Range(new_contact_data.emails) \subseteq Range(existing_lead.emails))
    \/ ~ (Range(new_contact_data.phone_numbers) \subseteq Range(existing_lead.phone_numbers))

\* a merge that keeps the incoming values alone
Union_IncomingOnly(existing, new) == Range(new)

\* existing_emails.union(new_emails) and existing_phone_numbers.union(...)
Union(existing, new) == existing \cup Range(new)

\* update_unified_lead_contact_info up to its update_one: find_one, the sets
\* of the stored lists, and the return when both unions are empty
FindExisting(w) ==
    LET me == workers[w]
        i == First(unified, me.url)
    IN /\ me.pc = "find"
       /\ workers' = [workers EXCEPT ![w] =
             IF i = 0
             THEN Return([me EXCEPT !.failure_count = @ + 1])
             ELSE IF /\ Union(Range(unified[i].emails), me.new_contact_info.emails) = {}
                     /\ Union(Range(unified[i].phone_numbers),
                              me.new_contact_info.phone_numbers) = {}
             THEN Return([me EXCEPT !.updated_count = @ + 1])
             ELSE [me EXCEPT !.pc = "update",
                             !.existing_emails = Range(unified[i].emails),
                             !.existing_phone_numbers = Range(unified[i].phone_numbers),
                             !.new_info = HasNew(unified[i], me.new_contact_info)]]
       /\ UNCHANGED <<unified, sources, urlIndex, nextId, clock, dd, en, hist, calls, yt, bm>>

\* an update that also stamps metadata.scraped_at
SetContact_Restamp(doc, emails, phones, now) ==
    [doc EXCEPT !.emails = IF emails # <<>> THEN emails ELSE @,
                !.phone_numbers = IF phones # <<>> THEN phones ELSE @,
                !.scraped_at = now + 1,
                !.updated_at = now]

\* {"$set": update_fields, "$currentDate": {"metadata.updated_at": True}}:
\* a merged list that is empty is not among the update_fields
SetContact(doc, emails, phones, now) ==
    [doc EXCEPT !.emails = IF emails # <<>> THEN emails ELSE @,
                !.phone_numbers = IF phones # <<>> THEN phones ELSE @,
                !.updated_at = now]

\* update_unified_lead_contact_info from its update_one on, and the return
UpdateOne(w) ==
    LET me == workers[w]
        i == First(unified, me.url)
    IN /\ me.pc = "update"
       /\ \E emails \in Perms(Union(me.existing_emails, me.new_contact_info.emails)),
             phones \in Perms(Union(me.existing_phone_numbers,
                                    me.new_contact_info.phone_numbers)) :
            LET new == SetContact(unified[i], emails, phones, clock)
                modified == i # 0 /\ new # unified[i]
            IN /\ unified' = IF i = 0 THEN unified ELSE [unified EXCEPT ![i] = new]
               /\ hist' = IF modified THEN Raced("upsert") ELSE hist
               /\ workers' = [workers EXCEPT ![w] =
                     IF modified
                     THEN Return([me EXCEPT !.updated_count = @ + 1])
                     ELSE Return([me EXCEPT !.failure_count = @ + 1])]
       /\ UNCHANGED <<sources, urlIndex, nextId, clock, dd, en, calls, yt, bm>>

\* insert_one raises something other than DuplicateKeyError (the server cannot
\* be reached, the write times out): the except clause of line 1585 counts
\* the record as a failure and the loop goes on
InsertRaise(w) ==
    LET me == workers[w]
        turned == [me EXCEPT !.todo = @ - 1, !.failure_count = @ + 1]
    IN /\ me.pc = "loop"
       /\ workers' = [workers EXCEPT ![w] = IF turned.todo = 0 THEN Return(turned) ELSE turned]
       /\ UNCHANGED <<unified, sources, urlIndex, nextId, clock, dd, en, hist, calls, yt, bm>>

\* find_one or update_one of update_unified_lead_contact_info raises: its
\* except clause (lines 350-352) returns None, the record is counted as a
\* failure (line 1578) and the call returns (line 1584)
ContactRaise(w) ==
    LET me == workers[w]
    IN /\ me.pc \in {"find", "update"}
       /\ workers' = [workers EXCEPT ![w] = Return([me EXCEPT !.failure_count = @ + 1])]
       /\ UNCHANGED <<unified, sources, urlIndex, nextId, clock, dd, en, hist, calls, yt, bm>>

----------------------------------------------------------------------------
(* The other ingestion entry points *)

\* the unified-schema dictionaries a caller can hand to the insert paths
Leads == {Transform(r.platform, r, NoTime) : r \in {L1, L2, W2}}

\* replace_one({"url": url}, lead_data, upsert=True)
ReplaceOne(coll, lead_data, id) ==
    LET i == First(coll, lead_data.url)
    IN IF i = 0
       THEN Append(coll, [lead_data EXCEPT !._id = id])
       ELSE [coll EXCEPT ![i] = [lead_data EXCEPT !._id = coll[i]._id]]

insert_unified_lead(lead_data) ==
    LET stamped == [lead_data EXCEPT !.scraped_at = clock]
        upserted == First(unified, lead_data.url) = 0
    IN /\ upserted => nextId <= MaxDocs
       /\ unified' = ReplaceOne(unified, stamped, nextId)
       /\ nextId' = IF upserted THEN nextId + 1 ELSE nextId
       /\ unified' # unified
       /\ hist' = Raced("insert")
       /\ UNCHANGED <<sources, urlIndex, clock, workers, dd, en, yt, bm>>
       /\ calls < MaxCalls
       /\ calls' = calls + 1

\* the loop of insert_batch_unified_leads: the collection and the next id
\* after insert_one of every lead, a DuplicateKeyError being counted and skipped
\* a loop that stops after its first lead
BatchInsert_FirstOnly(coll, id, leads_data, now) ==
    [coll |-> Append(coll, [Head(leads_data) EXCEPT !.scraped_at = now, !._id = id]),
     id |-> id + 1]

RECURSIVE BatchInsert(_, _, _, _)
BatchInsert(coll, id, leads_data, now) ==
    IF leads_data = <<>> THEN [coll |-> coll, id |-> id]
    ELSE LET lead == [Head(leads_data) EXCEPT !.scraped_at = now, !._id = id]
         IN IF urlIndex /\ lead.url \in Urls(coll)
            THEN BatchInsert(coll, id, Tail(leads_data), now)
            ELSE BatchInsert(Append(coll, lead), id + 1, Tail(leads_data), now)

insert_batch_unified_leads(leads_data) ==
    LET r == BatchInsert(unified, nextId, leads_data, clock)
    IN /\ r.id <= MaxDocs + 1
       /\ r.coll # unified
       /\ unified' = r.coll
       /\ nextId' = r.id
       /\ hist' = Raced("insert")
       /\ UNCHANGED <<sources, urlIndex, clock, workers, dd, en, yt, bm>>
       /\ calls < MaxCalls
       /\ calls' = calls + 1

\* insert_batch_leads([lead_data], source): the raw record goes to the source
\* collection of its platform; all but web_leads have a unique index on url
insert_batch_leads(lead_data) ==
    /\ Len(sources) < MaxSourceDocs
    /\ ~ (/\ lead_data.platform # "web"
          /\ \E i \in 1..Len(sources) :
                /\ sources[i].platform = lead_data.platform
                /\ sources[i].url = lead_data.url)
    /\ sources' = Append(sources, lead_data)
    /\ UNCHANGED <<unified, urlIndex, nextId, clock, workers, dd, en, hist, yt, bm>>
    /\ calls < MaxCalls
    /\ calls' = calls + 1

\* self.collections: the source names and the collection each one stands for
collections ==
    [instagram |-> "instagram_leads", linkedin |-> "linkedin_leads", web |-> "web_leads",
     youtube |-> "youtube_leads", facebook |-> "facebook_leads",
     twitter |-> "twitter_leads", unified |-> "unified_leads"]

\* the source arguments callers pass: the keys of self.collections and a
\* name that is none of them
SourceArg == DOMAIN collections \cup {"reddit"}

\* the raw record as a document of unified_leads: it has a url, and none of
\* the platform, profile, contact and metadata fields of the unified schema
RawAsUnified(lead_data) ==
    [UnifiedDoc(lead_data.url, "", "", "", "", <<>>, <<>>, NoTime)
        EXCEPT !.absent = additional_fields]

\* insert_batch_leads([lead_data], source) for any source argument: ValueError
\* when source is no key of self.collections; else insert_one into
\* self.db[self.collections[source]], a DuplicateKeyError being counted
insert_batch_leads_into(lead_data, source) ==
    /\ calls < MaxCalls
    /\ calls' = calls + 1
    /\ UNCHANGED <<urlIndex, clock, workers, dd, en, yt, bm>>
    /\ IF source \notin DOMAIN collections
       THEN UNCHANGED <<unified, sources, nextId, hist>>
       ELSE IF collections[source] = "unified_leads"
       THEN IF (urlIndex /\ lead_data.url \in Urls(unified)) \/ nextId > MaxDocs
            THEN UNCHANGED <<unified, sources, nextId, hist>>
            ELSE /\ unified' = Append(unified, [RawAsUnified(lead_data) EXCEPT !._id = nextId])
                 /\ nextId' = nextId + 1
                 /\ hist' = Raced("insert")
                 /\ UNCHANGED sources
       ELSE LET stored == [lead_data EXCEPT !.platform = source]
                duplicate == /\ source # "web"
                             /\ \E i \in 1..Len(sources) :
                                   /\ sources[i].platform = source
                                   /\ sources[i].url = lead_data.url
            IN /\ sources' = IF duplicate \/ Len(sources) >= MaxRawDocs
                             THEN sources ELSE Append(sources, stored)
               /\ UNCHANGED <<unified, nextId, hist>>

\* insert_instagram_lead .. insert_facebook_lead: insert_one into the source
\* collection of the record's platform; DuplicateKeyError (the unique index on
\* url, which web_leads lacks) makes the call return False
insert_lead(lead_data) ==
    /\ lead_data.platform \in {"instagram", "linkedin", "web", "youtube", "facebook"}
    /\ Len(sources) < MaxRawDocs
    /\ ~ (/\ lead_data.platform # "web"
          /\ \E i \in 1..Len(sources) :
                /\ sources[i].platform = lead_data.platform
                /\ sources[i].url = lead_data.url)
    /\ sources' = Append(sources, lead_data)
    /\ UNCHANGED <<unified, urlIndex, nextId, clock, workers, dd, en, hist, calls, yt, bm>>

\* unified-schema dictionaries written before the additional fields came, as
\* callers hand them to insert_unified_lead: one that has company_name and no
\* industry, one that has none of the additional fields, and a complete one
LegacyLeads ==
    {[Transform("linkedin", L1, NoTime) EXCEPT !.absent = {"industry"}],
     [Transform("web", W2, NoTime) EXCEPT !.absent = additional_fields,
                                           !.company_name = ""],
     [Transform("facebook", F2, NoTime) EXCEPT !.absent = {"industry", "bdr"}],
     Transform("linkedin", L2, NoTime)}

\* the collection names callers pass: the default, and the collection of the
\* unified leads
CollectionName == {"unified", "unified_leads"}

\* update_many(missing_fields_query, {'$set': additional_fields}) on one
\* document: it matches when any additional field is absent, and then all of
\* them are set to None
SetAdditional(doc) ==
    IF doc.absent = {} THEN doc
    ELSE [doc EXCEPT !.absent = {}, !.company_name = "None"]

\* ensure_unified_schema_compliance(collection_name): the update_many runs on
\* self.db[collection_name]; only 'unified_leads' is the collection of the
\* unified leads
ensure_unified_schema_compliance(collection_name) ==
    LET updated == [i \in 1..Len(unified) |-> SetAdditional(unified[i])]
    IN /\ calls < MaxCalls
       /\ calls' = calls + 1
       /\ unified' = IF collection_name = "unified_leads" THEN updated ELSE unified
       /\ hist' = IF unified' # unified THEN Raced("schema") ELSE hist
       /\ UNCHANGED <<sources, urlIndex, nextId, clock, workers, dd, en, yt, bm>>

\* a later MongoDBManager() runs _create_indexes again: the unique index on
\* url is built once no two documents share a url
_create_indexes ==
    /\ ~ urlIndex
    /\ NoDuplicateUrl(unified)
    /\ urlIndex' = TRUE
    /\ UNCHANGED <<unified, sources, nextId, clock, workers, dd, en, hist, calls, yt, bm>>

\* time passes
Tick ==
    /\ clock < MaxClock
    /\ clock' = clock + 1
    /\ UNCHANGED <<unified, sources, urlIndex, nextId, workers, dd, en, hist, calls, yt, bm>>

----------------------------------------------------------------------------
(* cleanup_duplicates *)

\* the urls of coll in the order of their first document
UrlOrder(coll) == FromKeys([i \in 1..Len(coll) |-> coll[i].url])

\* {"$group": {"_id": "$url", "count", "ids": {"$push": "$_id"},
\*             "latest_doc": {"$last": "$$ROOT"}}}
Group(coll, url) ==
    LET members == SelectSeq(coll, LAMBDA doc : doc.url = url)
    IN [url |-> url, count |-> Len(members),
        ids |-> [i \in 1..Len(members) |-> members[i]._id],
        latest_doc |-> members[Len(members)]]

\* a pipeline that finds no group
duplicate_urls_None(coll) == <<>>

\* a pipeline without its $match stage
duplicate_urls_All(coll) ==
    [i \in 1..Len(UrlOrder(coll)) |-> Group(coll, UrlOrder(coll)[i])]

\* the pipeline: the groups, then {"$match": {"count": {"$gt": 1}}}
duplicate_urls(coll) ==
    SelectSeq([i \in 1..Len(UrlOrder(coll)) |-> Group(coll, UrlOrder(coll)[i])],
              LAMBDA g : g.count > 1)

\* the latest metadata.scraped_at among the documents of url
MaxScrapedAt(coll, url) ==
    CHOOSE t \in {coll[i].scraped_at : i \in {j \in 1..Len(coll) : coll[j].url = url}} :
        \A i \in 1..Len(coll) : coll[i].url = url => coll[i].scraped_at <= t

\* how the sweep of s that has just ended went, as the next scan of s finds it
Ended(s) ==
    IF dd[s].pc # "done" THEN "none"
    ELSE IF dd[s].failed THEN "failed"
    ELSE IF s \in hist.crossed THEN "crossed"
    ELSE IF s \in hist.raced THEN "followed"
    ELSE "clean"

\* collection.aggregate(pipeline), line 29; a sweep after the first is a
\* re-run of the script and is not counted as a new operation
DedupeScan(s) ==
    LET found == duplicate_urls(unified)
    IN /\ dd[s].pc \in {"idle", "done"}
       /\ dd[s].runs < MaxSweeps
       /\ dd[s].runs = 0 => calls < MaxCalls
       /\ dd' = [dd EXCEPT ![s] =
                    [pc |-> IF found = <<>> THEN "done" ELSE "delete",
                     groups |-> found, failed |-> FALSE, runs |-> dd[s].runs + 1]]
       /\ hist' = IF s = "s1"
                  THEN [hist EXCEPT !.scanUrls = Urls(unified),
                                    !.scanMax = [u \in Urls(unified) |-> MaxScrapedAt(unified, u)],
                                    !.found = Len(found),
                                    !.before = unified,
                                    !.prev = Ended(s),
                                    !.raced = @ \ {s},
                                    !.crossed = @ \ {s}]
                  ELSE [hist EXCEPT !.raced = @ \ {s}, !.crossed = @ \ {s}]
       /\ calls' = IF dd[s].runs = 0 THEN calls + 1 ELSE calls
       /\ UNCHANGED <<unified, sources, urlIndex, nextId, clock, workers, en, yt, bm>>

\* a sweep that deletes no member of a group
ids_to_delete_None(g) == {}

\* a sweep that deletes every member of a group, the latest one too
ids_to_delete_All(g) == {g.ids[i] : i \in 1..Len(g.ids)}

\* ids_to_delete = [oid for oid in ids_to_remove if oid != latest_doc['_id']]
ids_to_delete(g) == {g.ids[i] : i \in 1..Len(g.ids)} \ {g.latest_doc._id}

\* collection.delete_many({"_id": {"$in": ids_to_delete}})
DedupeDelete(s) ==
    LET g == Head(dd[s].groups)
    IN /\ dd[s].pc = "delete"
       /\ unified' = SelectSeq(unified, LAMBDA doc : doc._id \notin ids_to_delete(g))
       /\ dd' = [dd EXCEPT ![s].pc = "replace"]
       /\ hist' = IF unified' # unified THEN Raced(s) ELSE hist
       /\ UNCHANGED <<sources, urlIndex, nextId, clock, workers, en, calls, yt, bm>>

\* collection.replace_one({"url": url}, latest_doc, upsert=True); a replacement
\* that would alter the matched document's _id is refused by the server, and
\* the exception leaves the loop (line 58)
DedupeReplace(s) ==
    LET g == Head(dd[s].groups)
        i == First(unified, g.url)
        refused == i # 0 /\ unified[i]._id # g.latest_doc._id
        rest == Tail(dd[s].groups)
    IN /\ dd[s].pc = "replace"
       /\ unified' = IF refused THEN unified
                     ELSE ReplaceOne(unified, g.latest_doc, g.latest_doc._id)
       /\ dd' = IF refused THEN [dd EXCEPT ![s].pc = "done", ![s].failed = TRUE]
                ELSE [dd EXCEPT ![s].pc = IF rest = <<>> THEN "done" ELSE "delete",
                                ![s].groups = rest]
       /\ hist' = IF unified' # unified THEN Raced(s) ELSE hist
       /\ UNCHANGED <<sources, urlIndex, nextId, clock, workers, en, calls, yt, bm>>

\* a store call of the sweep raises (the server cannot be reached, the write
\* is refused): the try of line 13 encloses the whole loop, so the except
\* clause of line 58 is where the sweep goes on, and there it ends
DedupeRaise(s) ==
    /\ dd[s].pc \in {"delete", "replace"}
    /\ dd' = [dd EXCEPT ![s].pc = "done", ![s].failed = TRUE]
    /\ UNCHANGED <<unified, sources, urlIndex, nextId, clock, workers, en, hist, calls, yt, bm>>

----------------------------------------------------------------------------
(* enrich_unified_leads_from_sources *)

\* source_config: the collections consulted (twitter_leads is not among them)
SourcePlatforms == {"instagram", "linkedin", "web", "youtube", "facebook"}

\* config['username_field'] of a source record; web has none
username_field(s) ==
    CASE s.platform = "youtube" -> s.channel_name
      [] OTHER -> s.username

\* source_collection.find(source_query): the conditions on url and on username
\* are both put into one query document
Matches(lead, s) ==
    LET byUrl == lead.url # ""
        byName == lead.username # "" /\ s.platform # "web"
    IN /\ s.platform \in SourcePlatforms
       /\ byUrl \/ byName
       /\ byUrl => s.url = lead.url
       /\ byName => username_field(s) = lead.username

\* config['email_field']: a string or a list, its empty items dropped
source_emails(s) ==
    CASE s.platform = "instagram" -> ListOf(s.business_email)
      [] s.platform = "youtube" -> ListOf(s.email)
      [] OTHER -> CleanList(s.emails)

source_phone_numbers(s) ==
    CASE s.platform = "instagram" -> ListOf(s.business_phone_number)
      [] OTHER -> CleanList(s.phone_numbers)

\* an enrichment that starts from an empty set instead of the lead's emails
updated_emails_SourcesOnly(lead, srcs) ==
    UNION {Range(source_emails(srcs[i])) : i \in {j \in 1..Len(srcs) : Matches(lead, srcs[j])}}

\* updated_emails after every matching source record has been merged in
updated_emails(lead, srcs) ==
    Range(lead.emails) \cup
    UNION {Range(source_emails(srcs[i])) : i \in {j \in 1..Len(srcs) : Matches(lead, srcs[j])}}

updated_phone_numbers(lead, srcs) ==
    Range(lead.phone_numbers) \cup
    UNION {Range(source_phone_numbers(srcs[i])) :
              i \in {j \in 1..Len(srcs) : Matches(lead, srcs[j])}}

\* a sweep that takes every lead to have gained something
found_new_contact_info_Always(lead, srcs) == TRUE

found_new_contact_info(lead, srcs) ==
    \/ updated_emails(lead, srcs) # Range(lead.emails)
    \/ updated_phone_numbers(lead, srcs) # Range(lead.phone_numbers)

\* count_documents({}) and the cursor of find({}), whose first batch holds the
\* documents as they are now
EnrichStart ==
    /\ en.pc \in {"idle", "done", "raised"}
    /\ en.runs < MaxSweeps
    /\ en' = [pc |-> IF unified = <<>> THEN "done" ELSE "run", leads |-> unified,
              total_unified_leads |-> Len(unified), leads_enriched |-> 0,
              leads_skipped |-> 0, runs |-> en.runs + 1]
    /\ hist' = [hist EXCEPT !.raced = @ \ {"enrich"},
                            !.srcAt = sources,
                            !.prior = /\ en.pc = "done"
                                      /\ "enrich" \notin hist.raced
                                      /\ sources = hist.srcAt]
    /\ UNCHANGED <<unified, sources, urlIndex, nextId, clock, workers, dd, calls, yt, bm>>

\* an update that also sets the platform
EnrichSet_Retag(doc, emails, phones, now) ==
    [doc EXCEPT !.emails = emails, !.phone_numbers = phones, !.updated_at = now,
                !.platform = "web"]

\* an update that also sets metadata.scraped_at
EnrichSet_Rescrape(doc, emails, phones, now) ==
    [doc EXCEPT !.emails = emails, !.phone_numbers = phones, !.updated_at = now,
                !.scraped_at = now + 1]

\* an update that stamps metadata.updated_at and leaves the lists alone
EnrichSet_StampOnly(doc, emails, phones, now) == [doc EXCEPT !.updated_at = now]

\* {'$set': {'contact.emails', 'contact.phone_numbers', 'metadata.updated_at'}}
EnrichSet(doc, emails, phones, now) ==
    [doc EXCEPT !.emails = emails, !.phone_numbers = phones, !.updated_at = now]

\* one turn of the loop over the unified leads
EnrichLead ==
    LET unified_lead == Head(en.leads)
        rest == Tail(en.leads)
        after == IF rest = <<>> THEN "done" ELSE "run"
        i == FirstId(unified, unified_lead._id)
    IN /\ en.pc = "run"
       /\ IF unified_lead.url = "" /\ unified_lead.username = ""
          THEN /\ en' = [en EXCEPT !.pc = after, !.leads = rest, !.leads_skipped = @ + 1]
               /\ UNCHANGED <<unified, hist>>
          ELSE IF ~ found_new_contact_info(unified_lead, sources)
          THEN /\ en' = [en EXCEPT !.pc = after, !.leads = rest]
               /\ UNCHANGED <<unified, hist>>
          ELSE \E emails \in Perms(updated_emails(unified_lead, sources)),
                  phones \in Perms(updated_phone_numbers(unified_lead, sources)) :
                 LET new == EnrichSet(unified[i], emails, phones, clock)
                     modified == i # 0 /\ new # unified[i]
                 IN /\ unified' = IF i = 0 THEN unified ELSE [unified EXCEPT ![i] = new]
                    /\ hist' = IF modified THEN Raced("enrich") ELSE hist
                    /\ en' = [en EXCEPT !.pc = after, !.leads = rest,
                                        !.leads_enriched = IF modified THEN @ + 1 ELSE @]
       /\ UNCHANGED <<sources, urlIndex, nextId, clock, workers, dd, calls, yt, bm>>

\* source_collection.find(source_query) or the iteration of its cursor raises
\* (lines 1458, 1460): no try encloses them, the exception leaves the loop and
\* the function, and no summary is returned
EnrichLookupRaise ==
    LET unified_lead == Head(en.leads)
    IN /\ en.pc = "run"
       /\ unified_lead.url # "" \/ unified_lead.username # ""
       /\ en' = [en EXCEPT !.pc = "raised", !.leads = Tail(en.leads)]
       /\ UNCHANGED <<unified, sources, urlIndex, nextId, clock, workers, dd, hist, calls, yt, bm>>

\* update_one raises: the except clause of line 1507 logs it and the loop
\* goes on with the next lead
EnrichUpdateRaise ==
    LET unified_lead == Head(en.leads)
        rest == Tail(en.leads)
    IN /\ en.pc = "run"
       /\ unified_lead.url # "" \/ unified_lead.username # ""
       /\ found_new_contact_info(unified_lead, sources)
       /\ en' = [en EXCEPT !.pc = IF rest = <<>> THEN "done" ELSE "run", !.leads = rest]
       /\ UNCHANGED <<unified, sources, urlIndex, nextId, clock, workers, dd, hist, calls, yt, bm>>

----------------------------------------------------------------------------
(* YouTubeScraperInterface: retries under the global semaphore *)

\* the tasks asyncio.gather runs for one batch
Task == 1..MaxUrls

\* a task of _process_url_with_retries: where it is, the loop variable, whether
\* it holds a permit of self.semaphore, the sleep it is in, what it returned,
\* and how many extractions it started and how many of them failed
NoTask ==
    [pc |-> "none", attempt |-> 0, permit |-> FALSE, wait_time |-> 0,
     result |-> "", made |-> 0, failed |-> 0]

\* a loop that goes round once more
Attempts_OneMore == 0..RETRY_ATTEMPTS

\* range(RETRY_ATTEMPTS)
Attempts == 0..(RETRY_ATTEMPTS - 1)

\* what extract_youtube_data can hand back: data, data with an 'error' key,
\* or an exception
Outcome == {"data", "error", "exception"}

\* scrape_multiple_urls(urls) with len(urls) = n <= BATCH_SIZE: one batch,
\* one task per url; each task runs up to its first await
scrape_multiple_urls(n) ==
    /\ \A t \in Task : yt.tasks[t].pc = "none"
    /\ n <= BATCH_SIZE
    /\ yt' = [yt EXCEPT !.tasks =
                 [t \in Task |-> IF t <= n THEN [NoTask EXCEPT !.pc = "acquire"]
                                 ELSE NoTask]]
    /\ UNCHANGED <<store, bm>>

\* async with self.semaphore: the task goes on when a permit is free
Acquire(t) ==
    LET me == yt.tasks[t]
    IN /\ me.pc = "acquire"
       /\ yt.semaphore > 0
       /\ yt' = [yt EXCEPT !.semaphore = @ - 1,
                           !.tasks[t] = [me EXCEPT !.pc = "extract", !.permit = TRUE,
                                                   !.made = @ + 1]]
       /\ UNCHANGED <<store, bm>>

\* a with block that is left without giving the permit back
Exit_KeepPermit(me) == me

\* the end of the with block, by return or by exception: the permit goes back
Exit(me) == [me EXCEPT !.permit = FALSE]

\* the extraction of the attempt ends with outcome: data without error is
\* returned; otherwise the task sleeps RETRY_BACKOFF_FACTOR ** attempt seconds
\* unless this was the last attempt, and the loop takes its next turn or ends
Extract(t, outcome) ==
    LET me == yt.tasks[t]
        out == Exit(me)
        back == IF out.permit THEN 0 ELSE 1
        failed == [out EXCEPT !.failed = @ + 1]
    IN /\ me.pc = "extract"
       /\ yt' = [yt EXCEPT
             !.semaphore = @ + back,
             !.tasks[t] =
                 IF outcome = "data"
                 THEN [out EXCEPT !.pc = "done", !.result = "data"]
                 ELSE IF me.attempt < RETRY_ATTEMPTS - 1
                 THEN [failed EXCEPT !.pc = "sleep",
                                     !.wait_time = RETRY_BACKOFF_FACTOR ^ me.attempt]
                 ELSE IF me.attempt + 1 \in Attempts
                 THEN [failed EXCEPT !.pc = "acquire", !.attempt = @ + 1]
                 ELSE [failed EXCEPT !.pc = "done", !.result = "None"]]
       /\ UNCHANGED <<store, bm>>

\* asyncio.sleep(wait_time) is over: the next turn of the loop
Wake(t) ==
    LET me == yt.tasks[t]
    IN /\ me.pc = "sleep"
       /\ yt' = [yt EXCEPT !.tasks[t] =
                   IF me.attempt + 1 \in Attempts
                   THEN [me EXCEPT !.pc = "acquire", !.attempt = @ + 1, !.wait_time = 0]
                   ELSE [me EXCEPT !.pc = "done", !.result = "None", !.wait_time = 0]]
       /\ UNCHANGED <<store, bm>>

----------------------------------------------------------------------------
(* YouTubeBrowserManager: the context pool *)

\* the coroutines that use browser contexts at once
BrowserWorker == 1..CONCURRENCY_LIMIT

\* start(): max_contexts new contexts, each with usage count 0
start ==
    /\ ~ bm.started
    /\ bm' = [bm EXCEPT !.started = TRUE,
                        !.pool = [i \in 1..max_contexts |-> bm.next + i - 1],
                        !.usage = [c \in bm.next..(bm.next + max_contexts - 1) |-> 0],
                        !.open = bm.next..(bm.next + max_contexts - 1),
                        !.next = @ + max_contexts]
    /\ UNCHANGED <<store, yt>>

\* get_context(), under self._lock: the next context of the pool in round-robin
\* order; at max_operations_per_context uses it is closed and replaced
get_context(w) ==
    LET context == bm.pool[bm._context_idx + 1]
        count == bm.usage[context] + 1
        recycle == count >= max_operations_per_context
        new_context == bm.next
    IN /\ bm.started
       /\ bm.held[w] = 0
       /\ recycle => new_context <= MaxContextIds
       /\ bm' = IF recycle
                THEN [bm EXCEPT
                        !._context_idx = (@ + 1) % Len(bm.pool),
                        !.pool[bm._context_idx + 1] = new_context,
                        !.usage = [c \in DOMAIN @ \cup {new_context} |->
                                      IF c = new_context THEN 0
                                      ELSE IF c = context THEN count ELSE @[c]],
                        !.open = (@ \ {context}) \cup {new_context},
                        !.next = @ + 1,
                        !.held[w] = new_context]
                ELSE [bm EXCEPT
                        !._context_idx = (@ + 1) % Len(bm.pool),
                        !.usage[context] = count,
                        !.held[w] = context]
       /\ UNCHANGED <<store, yt>>

\* release_context(context): a no-op of the manager; the caller lets go
release_context(w) ==
    /\ bm.held[w] # 0
    /\ bm' = [bm EXCEPT !.held[w] = 0]
    /\ UNCHANGED <<store, yt>>

\* recycle_all_contexts(), under self._lock: every context of the pool is
\* closed, pool and usage table are cleared and filled anew
recycle_all_contexts ==
    /\ bm.started
    /\ bm.next + max_contexts - 1 <= MaxContextIds
    /\ bm' = [bm EXCEPT !.pool = [i \in 1..max_contexts |-> bm.next + i - 1],
                        !.usage = [c \in bm.next..(bm.next + max_contexts - 1) |-> 0],
                        !.open = (@ \ Range(bm.pool)) \cup
                                 bm.next..(bm.next + max_contexts - 1),
                        !.next = @ + max_contexts]
    /\ UNCHANGED <<store, yt>>

----------------------------------------------------------------------------
(* The system *)

\* the state after MongoDBManager() on an empty database; index tells whether
\* _create_indexes got to build the unique index on unified_leads.url
InitWith(index) ==
    /\ unified = <<>>
    /\ sources = <<>>
    /\ urlIndex = index
    /\ nextId = 1
    /\ clock = 1
    /\ workers = [w \in Worker |-> IdleWorker]
    /\ dd = [s \in Sweeper |->
                [pc |-> "idle", groups |-> <<>>, failed |-> FALSE, runs |-> 0]]
    /\ en = [pc |-> "idle", leads |-> <<>>, total_unified_leads |-> 0,
             leads_enriched |-> 0, leads_skipped |-> 0, runs |-> 0]
    /\ hist = [scanUrls |-> {}, scanMax |-> <<>>, found |-> 0, raced |-> {},
               srcAt |-> <<>>, prior |-> FALSE, before |-> <<>>, prev |-> "none",
               crossed |-> {}]
    /\ calls = 0
    /\ yt = [semaphore |-> CONCURRENCY_LIMIT, tasks |-> [t \in Task |-> NoTask]]
    /\ bm = [started |-> FALSE, pool |-> <<>>, usage |-> <<>>, _context_idx |-> 0,
             open |-> {}, next |-> 1, held |-> [w \in BrowserWorker |-> 0]]

\* _create_indexes ran through (lines 77-138)
Init == InitWith(TRUE)

\* _create_indexes may have failed before line 111: the exception is logged as
\* a warning and the manager is used without the index (lines 140-141)
InitAnyIndex == \E index \in BOOLEAN : InitWith(index)

\* the callers W of the upsert path, their records drawn from Data (a
\* platform of which Data holds no record is not called with)
UpsertFrom(W, Data) ==
    \/ \E w \in W, platform \in TransformPlatforms \cup {"tiktok"}, n \in 1..MaxBatch :
          /\ platform \in TransformPlatforms => RawOf(Data, platform) # {}
          /\ Call(w, platform, n)
    \/ \E w \in W : \E data \in RawOf(Data, workers[w].platform) : Process(w, data)
    \/ \E w \in W : FindExisting(w)
    \/ \E w \in W : UpdateOne(w)

Upsert(W) == UpsertFrom(W, RawData)

\* concurrent upserts on a store whose unique index exists
Next ==
    \/ Upsert(Worker)
    \/ Tick

Spec == Init /\ [][Next]_vars

\* upserts by one caller of the records that put the transforms to the test
NextTransform ==
    \/ UpsertFrom({"w1"}, WideRaw)
    \/ Tick

SpecTransform == Init /\ [][NextTransform]_vars

\* upserts by one caller and insert_unified_lead
NextInsert ==
    \/ Upsert({"w1"})
    \/ \E lead_data \in Leads : insert_unified_lead(lead_data)
    \/ Tick

SpecInsert == Init /\ [][NextInsert]_vars

\* ingestion by one caller and the dedup sweep
NextDedupe ==
    \/ Upsert({"w1"})
    \/ \E leads_data \in SeqsUpTo(Leads, MaxBatch) : insert_batch_unified_leads(leads_data)
    \/ _create_indexes
    \/ Tick
    \/ DedupeScan("s1")
    \/ DedupeDelete("s1")
    \/ DedupeReplace("s1")

SpecDedupe == InitAnyIndex /\ [][NextDedupe]_vars

\* the same, with store calls of the sweep that can fail
NextDedupeFail ==
    \/ NextDedupe
    \/ DedupeRaise("s1")

SpecDedupeFail == InitAnyIndex /\ [][NextDedupeFail]_vars

\* the sweep is a sequential script: each of its store calls returns, and
\* the next one is issued
SpecDedupeLive ==
    /\ SpecDedupe
    /\ WF_vars(DedupeDelete("s1"))
    /\ WF_vars(DedupeReplace("s1"))

\* two processes run the sweep at once, either may stop at any store call,
\* and one caller ingests meanwhile
NextReentrant ==
    \/ UpsertFrom({"w1"}, TwoTags)
    \/ \E leads_data \in SeqsUpTo(Leads, MaxBatch) : insert_batch_unified_leads(leads_data)
    \/ Tick
    \/ DedupeScan("s1")
    \/ dd["s1"].pc # "idle" /\ DedupeScan("s2")
    \/ \E s \in Sweeper : DedupeDelete(s)
    \/ \E s \in Sweeper : DedupeReplace(s)
    \/ \E s \in Sweeper : DedupeRaise(s)

SpecReentrant == InitAnyIndex /\ [][NextReentrant]_vars

\* upserts of one url under two platform tags, beside both sweeps
NextAll ==
    \/ UpsertFrom({"w1"}, TwoTags)
    \/ \E lead_data \in SourceData : insert_batch_leads(lead_data)
    \/ Tick
    \/ EnrichStart
    \/ EnrichLead
    \/ DedupeScan("s1")
    \/ DedupeDelete("s1")
    \/ DedupeReplace("s1")

SpecAll == InitAnyIndex /\ [][NextAll]_vars

\* ingestion by one caller, the source collections and the enrichment sweep
NextEnrich ==
    \/ UpsertFrom({"w1"}, EnrichRaw)
    \/ \E lead_data \in SourceData : insert_batch_leads(lead_data)
    \/ Tick
    \/ EnrichStart
    \/ EnrichLead

SpecEnrich == Init /\ [][NextEnrich]_vars

\* upserts by one caller whose store calls can fail
NextOutage ==
    \/ Upsert({"w1"})
    \/ InsertRaise("w1")
    \/ ContactRaise("w1")
    \/ Tick

SpecOutage == Init /\ [][NextOutage]_vars

\* the scrapers write their raw records to the source collections
NextSources ==
    \/ \E lead_data \in SingleData : insert_lead(lead_data)
    \/ \E lead_data \in SourceData : insert_batch_leads(lead_data)
    \/ Tick

SpecSources == Init /\ [][NextSources]_vars

\* leads of the old and of the new schema, and the schema compliance run
NextSchema ==
    \/ \E lead_data \in LegacyLeads : insert_unified_lead(lead_data)
    \/ \E collection_name \in CollectionName :
          ensure_unified_schema_compliance(collection_name)
    \/ UpsertFrom({"w1"}, {W1})
    \/ Tick

SpecSchema == Init /\ [][NextSchema]_vars

\* upserts of web records with and without structured values
NextFallback ==
    \/ UpsertFrom({"w1"}, FallbackData)
    \/ Tick

SpecFallback == Init /\ [][NextFallback]_vars

\* callers of insert_batch_leads with any source argument, next to an upsert
NextBatchLeads ==
    \/ \E lead_data \in SingleData, source \in SourceArg :
          insert_batch_leads_into(lead_data, source)
    \/ UpsertFrom({"w1"}, {L1})
    \/ Tick

SpecBatchLeads == Init /\ [][NextBatchLeads]_vars

\* a Twitter lead, Twitter and LinkedIn source records, and the enrichment sweep
NextEnrichTwitter ==
    \/ UpsertFrom({"w1"}, {T1})
    \/ \E lead_data \in {T2, L1} : insert_batch_leads(lead_data)
    \/ Tick
    \/ EnrichStart
    \/ EnrichLead

SpecEnrichTwitter == Init /\ [][NextEnrichTwitter]_vars

\* the enrichment sweep over leads of two urls, its store calls able to fail
NextEnrichFail ==
    \/ UpsertFrom({"w1"}, TwoLeads)
    \/ \E lead_data \in SourceData : insert_batch_leads(lead_data)
    \/ Tick
    \/ EnrichStart
    \/ EnrichLead
    \/ EnrichLookupRaise
    \/ EnrichUpdateRaise

SpecEnrichFail == Init /\ [][NextEnrichFail]_vars

\* the YouTube scraper working on one batch of urls
NextScrape ==
    \/ \E n \in 1..MaxUrls : scrape_multiple_urls(n)
    \/ \E t \in Task : Acquire(t)
    \/ \E t \in Task, outcome \in Outcome : Extract(t, outcome)
    \/ \E t \in Task : Wake(t)

SpecScrape == Init /\ [][NextScrape]_vars

\* the event loop runs every task that can run: an extraction ends, a sleep
\* ends, and the waiters of asyncio.Semaphore are woken in FIFO order, so a
\* task that waits for a permit gets one when permits keep coming back
SpecScrapeLive ==
    /\ SpecScrape
    /\ \A t \in Task : /\ SF_vars(Acquire(t))
                        /\ WF_vars(\E outcome \in Outcome : Extract(t, outcome))
                        /\ WF_vars(Wake(t))

\* coroutines taking and releasing browser contexts, and the recycling
NextBrowser ==
    \/ start
    \/ \E w \in BrowserWorker : get_context(w)
    \/ \E w \in BrowserWorker : release_context(w)
    \/ recycle_all_contexts

SpecBrowser == Init /\ [][NextBrowser]_vars

----------------------------------------------------------------------------
(* Steps of the operations, as the properties below name them *)

\* caller w performs the update_one of update_unified_lead_contact_info
UpdateStep(w) == workers[w].pc = "update" /\ workers'[w].pc = "done"

\* caller w handles an identity conflict (find_one or update_one)
ConflictStep(w) == workers[w].pc \in {"find", "update"} /\ workers'[w] # workers[w]

\* the enrichment sweep handles one lead
EnrichStep == en.pc = "run" /\ en' # en

Emails(doc) == Range(doc.emails)

Phones(doc) == Range(doc.phone_numbers)

\* no write landed in unified_leads or in a source collection since the
\* sweep that is under way (or has just ended) started
EnrichUndisturbed == "enrich" \notin hist.raced /\ sources = hist.srcAt

\* the source record s has the url of lead, or the username of lead
SameUrl(lead, s) == lead.url # "" /\ s.url = lead.url

SameUsername(lead, s) ==
    lead.username # "" /\ s.platform # "web" /\ username_field(s) = lead.username

\* a step by which some document gained an email or a phone number
Grew ==
    \E i \in 1..Len(unified) :
        /\ i <= Len(unified')
        /\ Emails(unified[i]) \subseteq Emails(unified'[i])
        /\ Phones(unified[i]) \subseteq Phones(unified'[i])
        /\ \/ Emails(unified'[i]) # Emails(unified[i])
           \/ Phones(unified'[i]) # Phones(unified[i])

----------------------------------------------------------------------------
(* Properties *)

C2_UpdatedIffNew ==
    \A w \in Worker :
        workers[w].pc = "done" => (workers[w].updated_count = 1 <=> workers[w].new_info)

\* C3: a merge that introduces no new email or phone number performs no
\* persisted write: no field of any document changes, metadata.updated_at
\* included.
C3_NoWriteWithoutNewValue ==
    [][\A w \in Worker :
          UpdateStep(w) /\ ~ workers[w].new_info => unified' = unified]_vars

\* C4: no upsert overwrites another's union: the update_one of an upsert
\* leaves every email and phone number that is stored for its url stored.
C4_UpsertKeepsStoredValues ==
    [][\A w \in Worker :
          UpdateStep(w) =>
             \A i \in 1..Len(unified) :
                 /\ Emails(unified[i]) \subseteq Emails(unified'[i])
                 /\ Phones(unified[i]) \subseteq Phones(unified'[i])]_vars

\* C5: set-union law of the contact merge.  When the stored lists are the
\* ones the merge read, the emails written are the stored ones united with the
\* incoming ones, likewise the phone numbers; a merge of values that are all
\* stored already (the same incoming set again) leaves both sets as they are,
\* and the result does not depend on which side a value came from.
C5_SetUnionLaw ==
    [][\A w \in Worker :
          LET me == workers[w]
              i == First(unified, me.url)
          IN UpdateStep(w) /\ i # 0
                /\ Emails(unified[i]) = me.existing_emails
                /\ Phones(unified[i]) = me.existing_phone_numbers
             => /\ Emails(unified'[i]) =
                      Emails(unified[i]) \cup Range(me.new_contact_info.emails)
                /\ Phones(unified'[i]) =
                      Phones(unified[i]) \cup Range(me.new_contact_info.phone_numbers)
                /\ Emails(unified'[i]) =
                      Range(me.new_contact_info.emails) \cup Emails(unified[i])
                /\ ~ me.new_info =>
                      /\ Emails(unified'[i]) = Emails(unified[i])
                      /\ Phones(unified'[i]) = Phones(unified[i])]_vars

\* a merge added b@x.com to a stored a@x.com
C5_Witness ==
    /\ \E w \in Worker :
          workers[w].pc = "done" /\ workers[w].updated_count = 1 /\ workers[w].new_info
    /\ \E i \in 1..Len(unified) : Emails(unified[i]) = {EA, EB}

\* C6: first write wins on conflict.  The steps by which
\* insert_and_transform_to_unified handles a stored url change nothing but
\* contact.emails, contact.phone_numbers and metadata.updated_at of the stored
\* documents; url, platform, profile and classification stay as first written.
C6_ConflictFrame ==
    [][\A w \in Worker :
          ConflictStep(w) =>
             /\ Len(unified') = Len(unified)
             /\ \A i \in 1..Len(unified) :
                   [unified'[i] EXCEPT !.emails = unified[i].emails,
                                       !.phone_numbers = unified[i].phone_numbers,
                                       !.updated_at = unified[i].updated_at]
                   = unified[i]]_vars

\* a Facebook lead first written without contact values took the LinkedIn
\* record's email and is still the Facebook lead
C6_Witness ==
    /\ \E w \in Worker : workers[w].pc = "done" /\ workers[w].updated_count = 1
    /\ \E i \in 1..Len(unified) :
          /\ unified[i].platform = "facebook"
          /\ unified[i].emails # <<>>
          /\ unified[i].updated_at # NoTime

\* C7: insert_unified_lead does not overwrite a stored record wholesale: for
\* a url that is stored, the stored emails and phone numbers after the call
\* include those before it, and profile and classification are unchanged.
C7_InsertKeepsStored ==
    [][\A lead_data \in Leads :
          LET i == First(unified, lead_data.url)
          IN insert_unified_lead(lead_data) /\ i # 0 =>
                /\ Emails(unified[i]) \subseteq Emails(unified'[i])
                /\ Phones(unified[i]) \subseteq Phones(unified'[i])
                /\ unified'[i].full_name = unified[i].full_name
                /\ unified'[i].company_name = unified[i].company_name]_vars

\* C8: dedup convergence.  When cleanup_duplicates() has completed and no
\* other write landed during it, every url that had a record at its scan has
\* exactly one, and no two documents share a url.
C8_DedupConvergence ==
    dd["s1"].pc = "done" /\ "s1" \notin hist.raced =>
        /\ \A url \in hist.scanUrls : Count(unified, url) = 1
        /\ \A i, j \in 1..Len(unified) : i # j => unified[i].url # unified[j].url

\* a sweep that found a duplicate group has completed undisturbed
C8_Witness ==
    /\ dd["s1"].pc = "done"
    /\ "s1" \notin hist.raced
    /\ hist.found >= 1
    /\ Len(unified) >= 1

\* C9: dedup survivor.  After an undisturbed cleanup_duplicates(), the
\* document that remains for a url carries the latest metadata.scraped_at its
\* group had at the scan, whatever the order in which the group was stored.
C9_SurvivorIsLatestScraped ==
    dd["s1"].pc = "done" /\ "s1" \notin hist.raced =>
        \A i \in 1..Len(unified) :
            unified[i].url \in hist.scanUrls =>
                unified[i].scraped_at = hist.scanMax[unified[i].url]

\* C10: enrichment monotonicity.  With no concurrent writer, a step of
\* enrich_unified_leads_from_sources() removes no document and leaves every
\* stored email and phone number of every lead stored.
C10_EnrichmentMonotone ==
    [][EnrichStep /\ "enrich" \notin hist.raced =>
          /\ Len(unified') = Len(unified)
          /\ \A i \in 1..Len(unified) :
                /\ Emails(unified[i]) \subseteq Emails(unified'[i])
                /\ Phones(unified[i]) \subseteq Phones(unified'[i])]_vars

\* an undisturbed sweep has enriched a lead that had contact values before
C10_Witness ==
    /\ en.pc = "done"
    /\ "enrich" \notin hist.raced
    /\ en.leads_enriched >= 1
    /\ \E i \in 1..Len(unified) :
          unified[i].updated_at # NoTime /\ Cardinality(Emails(unified[i])) >= 2

\* C11: enrichment is idempotent.  A sweep that starts when the sweep before
\* it has ended, with no write to unified_leads or to the sources since that
\* one started, writes nothing and reports leads_enriched = 0.
C11_EnrichmentIdempotent ==
    [][EnrichStep /\ hist.prior /\ EnrichUndisturbed =>
          /\ unified' = unified
          /\ en'.leads_enriched = 0]_vars

\* a second sweep in a row has ended with nothing enriched, over a store in
\* which the first one had enriched a lead
C11_Witness ==
    /\ en.pc = "done" /\ en.runs = 2
    /\ hist.prior /\ EnrichUndisturbed
    /\ en.leads_enriched = 0
    /\ sources # <<>>
    /\ \E i \in 1..Len(unified) :
          /\ unified[i].updated_at # NoTime
          /\ Range(source_emails(sources[1])) \subseteq Emails(unified[i])
          /\ source_emails(sources[1]) # <<>>

\* C12: enrichment joins on url OR username.  After an undisturbed sweep
\* every lead holds the emails and phone numbers of every source record that
\* has the lead's url, and of every source record that has the lead's
\* username, whatever the other key of that record is.
C12_JoinOnUrlOrUsername ==
    en.pc = "done" /\ EnrichUndisturbed =>
        \A i \in 1..Len(unified), j \in 1..Len(sources) :
            /\ sources[j].platform \in SourcePlatforms
            /\ SameUrl(unified[i], sources[j]) \/ SameUsername(unified[i], sources[j])
            => /\ Range(source_emails(sources[j])) \subseteq Emails(unified[i])
               /\ Range(source_phone_numbers(sources[j])) \subseteq Phones(unified[i])

\* C13: enrichment counting.  In an undisturbed sweep the step on a lead
\* counts it in leads_skipped exactly when it has neither url nor username,
\* and then writes nothing; it counts it in leads_enriched exactly when the
\* lead's contact sets grew; a lead that gained nothing is in neither count.
C13_EnrichmentCounting ==
    [][EnrichStep /\ EnrichUndisturbed =>
          LET unified_lead == Head(en.leads)
              nokey == unified_lead.url = "" /\ unified_lead.username = ""
          IN /\ en'.leads_skipped = en.leads_skipped + (IF nokey THEN 1 ELSE 0)
             /\ nokey => unified' = unified
             /\ en'.leads_enriched = en.leads_enriched + (IF Grew THEN 1 ELSE 0)
             /\ ~ Grew => unified' = unified]_vars

\* a sweep over three leads has skipped the one without keys, enriched one
\* and left one that gained nothing uncounted
C13_Witness ==
    /\ en.pc = "done" /\ EnrichUndisturbed
    /\ en.total_unified_leads = 3
    /\ en.leads_skipped = 1
    /\ en.leads_enriched = 1

\* C14: enrichment under concurrent ingestion.  The update by which the
\* sweep writes a lead leaves every email and phone number stored that an
\* upsert added after the sweep read the lead.
C14_EnrichKeepsConcurrentValues ==
    [][EnrichStep =>
          \A i \in 1..Len(unified) :
              /\ Emails(unified[i]) \subseteq Emails(unified'[i])
              /\ Phones(unified[i]) \subseteq Phones(unified'[i])]_vars

\* C15: denylist rejection.  No LinkedIn lead is stored whose display name
\* (profile.full_name), trimmed and lower-cased, is empty or one of the
\* denylisted placeholder strings: transform_linkedin_to_unified rejects every
\* such record and insert_and_transform_to_unified stores nothing for it.
C15_DenylistRejection ==
    \A i \in 1..Len(unified) :
        unified[i].platform = "linkedin" => ~ is_invalid_linkedin_data(unified[i].full_name)

\* C16: a record without identity key is rejected by every transform: no
\* document with an empty url is ever stored.
C16_NoEmptyUrl ==
    \A i \in 1..Len(unified) : unified[i].url # ""

\* C17: no transform leaves by an exception: whatever record the loop of
\* insert_and_transform_to_unified hands to the platform's transform, the
\* transform returns a lead or the rejected result.
C17_TransformNeverRaises ==
    [][\A data \in WideRaw :
          /\ data.platform = workers["w1"].platform
          /\ Process("w1", data)
          => ~ IsRaised(Transform(data.platform, data, clock))]_vars

\* C18: true sets.  In every state of unified_leads no document lists an
\* email or a phone number twice.
C18_TrueSets ==
    \A i \in 1..Len(unified) :
        /\ Cardinality(Range(unified[i].emails)) = Len(unified[i].emails)
        /\ Cardinality(Range(unified[i].phone_numbers)) = Len(unified[i].phone_numbers)

\* C19: platform immutability.  No step of an upsert, of the enrichment sweep
\* or of the dedup sweep changes the platform of a stored document, also when
\* its url is submitted again under another platform tag.
C19_PlatformImmutable ==
    [][\A i \in 1..Len(unified), j \in 1..Len(unified') :
          unified'[j]._id = unified[i]._id => unified'[j].platform = unified[i].platform]_vars

\* a Facebook lead has taken the email of a LinkedIn upsert of its url and the
\* email of a LinkedIn source record and is still a Facebook lead
C19_Witness ==
    /\ en.pc = "done" /\ en.leads_enriched = 1
    /\ \E i \in 1..Len(unified) :
          /\ unified[i].platform = "facebook"
          /\ {EA, EB} \subseteq Emails(unified[i])

\* C20: failure isolation in the dedup sweep.  When cleanup_duplicates() has
\* ended, every duplicate group its scan found has been processed, except at
\* most the group whose delete or re-persist failed.
C20_DedupFailureIsolated ==
    dd["s1"].pc = "done" => Len(dd["s1"].groups) <= (IF dd["s1"].failed THEN 1 ELSE 0)

\* C21: connectivity errors propagate.  A store call of
\* insert_and_transform_to_unified that fails because the store cannot be
\* reached ends the call with the error handed to the caller (the caller is
\* left at "raised"); it is not counted as a failure of one record while the
\* batch goes on or returns its counts.
C21_ConnectivityErrorPropagates ==
    [][\A w \in Worker :
          InsertRaise(w) \/ ContactRaise(w) => workers'[w].pc = "raised"]_vars

\* C22: source collection uniqueness.  In every source collection, web_leads
\* included, no two raw records have the same url.
C22_SourceUniqueness ==
    \A i, j \in 1..Len(sources) :
        sources[i].platform = sources[j].platform /\ sources[i].url = sources[j].url
            => i = j

\* C23, as stated: every lead handed to insert_batch_unified_leads becomes a
\* new document, a lead whose url is stored (or is earlier in the batch) too.
C23_BatchAlwaysInserts ==
    [][\A leads_data \in SeqsUpTo(Leads, MaxBatch) :
          insert_batch_unified_leads(leads_data)
              => Len(unified') = Len(unified) + Len(leads_data)]_vars

\* C23, amended: insert_batch_unified_leads makes a second document of a
\* stored url only on a store whose unique index on url is missing; with the
\* index, the lead is refused (counted as a duplicate) and no two documents
\* share a url afterwards.
C23_BatchBypassNeedsNoIndex ==
    [][\A leads_data \in SeqsUpTo(Leads, MaxBatch) :
          insert_batch_unified_leads(leads_data)
              => IF urlIndex
                 THEN /\ NoDuplicateUrl(unified')
                      /\ Len(unified') =
                            Len(unified) + Cardinality(Urls(unified') \ Urls(unified))
                 ELSE Len(unified') = Len(unified) + Len(leads_data)]_vars

\* no upsert was called, and two documents of one url are stored
C23_Witness ==
    /\ ~ urlIndex
    /\ \A w \in Worker : workers[w].pc = "idle"
    /\ \E i, j \in 1..Len(unified) : i # j /\ unified[i].url = unified[j].url

\* C24: a batch upsert processes every record.  When
\* insert_and_transform_to_unified has returned, no record of source_data is
\* left that the loop has not reached, whether or not an earlier record met a
\* stored url.
C24_BatchProcessesEveryRecord ==
    \A w \in Worker : workers[w].pc = "done" => workers[w].todo = 0

\* the email addresses a raw record carries, in the field of its platform
raw_emails(s) ==
    IF s.platform = "twitter" THEN ListOf(s.email) ELSE source_emails(s)

\* C25: enrichment consults every source collection.  After an undisturbed
\* sweep, a lead holds the emails of every source record of its url and
\* username, the records of twitter_leads included.
C25_EveryPlatformConsulted ==
    en.pc = "done" /\ EnrichUndisturbed =>
        \A i \in 1..Len(unified), j \in 1..Len(sources) :
            /\ sources[j].platform \in TransformPlatforms
            /\ SameUrl(unified[i], sources[j])
            /\ SameUsername(unified[i], sources[j])
            => Range(raw_emails(sources[j])) \subseteq Emails(unified[i])

\* C26: enrichment failure isolation.  A sweep does not end before every
\* lead of its cursor has had its turn, and it ends by returning its summary:
\* a failed source lookup or update of one lead stops neither.
C26_EnrichFailureIsolated ==
    en.pc # "run" => en.leads = <<>> /\ en.pc \in {"idle", "done"}

\* the sweep s1 does one of its store calls
SweepStep == dd["s1"].pc \in {"delete", "replace"} /\ dd'["s1"] # dd["s1"]

\* C27: dedup tolerates concurrent ingestion.  A sweep during which ingestion
\* writes still runs to its end without failing, and a further sweep that
\* runs after the ingestion has stopped leaves no two documents of one url.
C27_DedupToleratesIngestion ==
    /\ [](~ dd["s1"].failed)
    /\ [](/\ dd["s1"].pc = "done"
          /\ hist.prev \in {"crossed", "followed"}
          /\ "s1" \notin hist.raced
          => NoDuplicateUrl(unified))
    /\ (dd["s1"].pc \in {"delete", "replace"} ~> dd["s1"].pc = "done")

\* ingestion wrote during the first sweep and left a duplicate group, which
\* the second, undisturbed sweep found and removed
C27_Witness ==
    /\ dd["s1"].pc = "done"
    /\ hist.prev = "crossed"
    /\ "s1" \notin hist.raced
    /\ hist.found > 0

\* C28: dedup does not lose merged contact data.  The replace_one of the
\* sweep removes no email and no phone number from a document that stays in
\* the collection, whatever an upsert merged into it since the scan.
C28_ReplaceKeepsMergedValues ==
    [][dd["s1"].pc = "replace" /\ dd'["s1"] # dd["s1"] =>
          \A i \in 1..Len(unified), j \in 1..Len(unified') :
              unified'[j]._id = unified[i]._id =>
                  /\ Emails(unified[i]) \subseteq Emails(unified'[j])
                  /\ Phones(unified[i]) \subseteq Phones(unified'[j])]_vars

\* C29: dedup is idempotent and leaves non-duplicates alone.  No step of a
\* sweep changes or deletes a document of a url other than the one of the
\* group it is working on, and a sweep that runs directly after an undisturbed
\* sweep finds no duplicate group and leaves the collection as it found it.
C29_DedupIdempotent ==
    /\ [][SweepStep =>
             \A i \in 1..Len(unified) :
                 unified[i].url # Head(dd["s1"].groups).url
                     => unified[i] \in Range(unified')]_vars
    /\ [](hist.prev = "clean" =>
             /\ hist.found = 0
             /\ "s1" \notin hist.raced => unified = hist.before)

\* a second sweep ran directly after a first one that had removed a document
\* and had left a document of another url alone
C29_Witness ==
    /\ dd["s1"].pc = "done"
    /\ dd["s1"].runs = 2
    /\ hist.prev = "clean"
    /\ "s1" \notin hist.raced
    /\ Len(unified) = 2
    /\ nextId > 3

\* C30: dedup never removes the last record of an identity.  Whatever the
\* interleaving of the sweeps of two processes with ingestion, and wherever a
\* sweep stops, every url that has a document before a step has one after it.
C30_NeverRemovesLastRecord ==
    [][Urls(unified) \subseteq Urls(unified')]_vars

\* both processes swept at once: s2 was between its scan and its end when the
\* delete_many of s1 landed, and both ran to their end
C30_Witness ==
    /\ dd["s1"].pc = "done"
    /\ dd["s2"].pc = "done"
    /\ "s2" \in hist.crossed
    /\ Len(unified) < nextId - 1
    /\ Len(unified) < nextId - 1


\* C31: the frame of enrichment.  A step of enrich_unified_leads_from_sources
\* writes nothing to a source collection, creates and deletes no lead, and
\* changes of a lead nothing but contact.emails, contact.phone_numbers and
\* metadata.updated_at; the one lead it writes is the lead it is handling, the
\* lists it writes hold what it read of that lead and more, and in a sweep that
\* no other writer crossed the stored contact set of that lead grows.
C31_EnrichmentFrame ==
    [][EnrichStep =>
          /\ sources' = sources
          /\ Len(unified') = Len(unified)
          /\ \A i \in 1..Len(unified) :
                LET old == unified[i]
                    new == unified'[i]
                    read == Head(en.leads)
                IN /\ new = [old EXCEPT !.emails = new.emails,
                                        !.phone_numbers = new.phone_numbers,
                                        !.updated_at = new.updated_at]
                   /\ new # old =>
                        /\ old._id = read._id
                        /\ Emails(read) \subseteq Emails(new)
                        /\ Phones(read) \subseteq Phones(new)
                        /\ Emails(new) \cup Phones(new) # Emails(read) \cup Phones(read)
                        /\ "enrich" \notin hist.raced =>
                              /\ Emails(old) \subseteq Emails(new)
                              /\ Phones(old) \subseteq Phones(new)
                              /\ Emails(new) \cup Phones(new) # Emails(old) \cup Phones(old)]_vars

\* an undisturbed sweep over two leads has written one of them and left the
\* other, which gained nothing, as it was
C31_Witness ==
    /\ en.pc = "done" /\ EnrichUndisturbed
    /\ en.total_unified_leads = 2
    /\ en.leads_skipped = 0
    /\ en.leads_enriched = 1
    /\ Len(unified) = 2
    /\ \E i, j \in 1..2 : /\ unified[i].updated_at # NoTime
                           /\ Emails(unified[i]) \cup Phones(unified[i]) # {}
                           /\ unified[j].updated_at = NoTime

\* C33: no accepted LinkedIn lead carries a placeholder name.  Whatever
\* full_name and author_name a record has, when transform_linkedin_to_unified
\* returns a lead its profile.full_name is not empty and not one of the
\* denylisted strings.
C33_AcceptedNameIsReal ==
    [][\A data \in WideRaw :
          /\ data.platform = "linkedin"
          /\ workers["w1"].platform = "linkedin"
          /\ Process("w1", data)
          => LET lead == transform_linkedin_to_unified(data, clock)
             IN ~ IsNone(lead) =>
                  /\ StripLower(lead.full_name) # ""
                  /\ ~ is_invalid_linkedin_data(lead.full_name)]_vars

\* C35: insert_batch_leads never writes to the canonical store: whatever its
\* source argument, it raises ValueError without writing or writes only to a
\* platform source collection, and unified_leads is as it was.
C35_BatchLeadsSparesUnified ==
    [][\A lead_data \in SingleData, source \in SourceArg :
          insert_batch_leads_into(lead_data, source) => unified' = unified]_vars

\* C32: the ordered fallback chain of the web transform.  The name
\* get_value_with_fallback yields is the structured value of ai_leads[0] when
\* that is present and non-empty, else the flat field when that is non-empty,
\* else the default "": an empty structured value falls through to a
\* non-empty flat field.
C32_FallbackChain ==
    [][\A data \in FallbackData :
          /\ workers["w1"].platform = "web"
          /\ Process("w1", data)
          => LET lead == transform_web_to_unified(data, clock)
                 structured == data.primary_name
                 flat == data.full_name
             IN lead.full_name =
                  IF structured \notin {"None", ""} THEN Strip(structured)
                  ELSE IF flat # "" THEN Strip(flat)
                  ELSE ""]_vars

\* C34: schema compliance only adds what is missing.  After a run of
\* ensure_unified_schema_compliance every additional field a lead lacked is
\* there with the value null, every additional field it had has the value it
\* had, and no other field of any lead has changed.
C34_ComplianceOnlyAdds ==
    [][\A collection_name \in CollectionName :
          ensure_unified_schema_compliance(collection_name) =>
            /\ Len(unified') = Len(unified)
            /\ \A i \in 1..Len(unified) :
                  LET old == unified[i]
                      new == unified'[i]
                  IN /\ new.absent = {}
                     /\ new.company_name = IF "company_name" \in old.absent
                                           THEN "None" ELSE old.company_name
                     /\ new = [old EXCEPT !.absent = new.absent,
                                          !.company_name = new.company_name]]_vars

\* a task of the batch is at work
Running(t) == yt.tasks[t].pc \notin {"none", "done"}

\* the tasks that hold a permit of the semaphore
Holders == {t \in Task : yt.tasks[t].permit}

\* C36: _process_url_with_retries makes at most RETRY_ATTEMPTS extraction
\* attempts for a url; it returns the data of the first attempt without error,
\* and None exactly when all RETRY_ATTEMPTS attempts failed; it sleeps
\* RETRY_BACKOFF_FACTOR ** attempt seconds only between two attempts; and every
\* task that was started returns
C36_BoundedRetry ==
    /\ [](\A t \in Task :
            LET me == yt.tasks[t]
            IN /\ me.made <= RETRY_ATTEMPTS
               /\ me.pc = "done" =>
                    /\ me.result = "None" <=> me.failed = RETRY_ATTEMPTS
                    /\ me.result = "data" <=> me.failed = me.made - 1
                    /\ me.result \in {"None", "data"}
               /\ me.pc = "sleep" =>
                    /\ me.made < RETRY_ATTEMPTS
                    /\ me.failed = me.made
                    /\ me.wait_time = RETRY_BACKOFF_FACTOR ^ (me.made - 1)
               /\ me.pc # "sleep" => me.wait_time = 0)
    /\ \A t \in Task : Running(t) ~> yt.tasks[t].pc = "done"

\* one task gave up after RETRY_ATTEMPTS failures, another got its data on the
\* last attempt
C36_Witness ==
    /\ \E t \in Task : /\ yt.tasks[t].pc = "done"
                       /\ yt.tasks[t].result = "None"
                       /\ yt.tasks[t].made = RETRY_ATTEMPTS
    /\ \E t \in Task : /\ yt.tasks[t].result = "data"
                       /\ yt.tasks[t].failed = RETRY_ATTEMPTS - 1

\* C37: at most CONCURRENCY_LIMIT extractions are in flight at any time; a
\* task holds a permit exactly while it is in an extraction attempt, never
\* while it sleeps in backoff; and every task that waits for a permit gets to
\* its attempt
C37_GlobalRateLimit ==
    /\ [](/\ Cardinality(Holders) <= CONCURRENCY_LIMIT
          /\ yt.semaphore = CONCURRENCY_LIMIT - Cardinality(Holders)
          /\ \A t \in Task : yt.tasks[t].permit <=> yt.tasks[t].pc = "extract")
    /\ \A t \in Task : yt.tasks[t].pc = "acquire" ~> yt.tasks[t].pc = "extract"

\* all permits are out and a task that is back from its backoff waits for one
C37_Witness ==
    /\ yt.semaphore = 0
    /\ Cardinality(Holders) = CONCURRENCY_LIMIT
    /\ \E t \in Task : yt.tasks[t].pc = "acquire" /\ yt.tasks[t].made >= 1

\* the contexts some coroutine obtained and has not released
InUse == {bm.held[w] : w \in BrowserWorker} \ {0}

\* C38: the recycling of get_context never closes a context that another
\* coroutine obtained and has not yet released
C38_NeverClosedWhileInUse ==
    [][\A w \in BrowserWorker :
          get_context(w) => \A c \in InUse : c \in bm.open => c \in bm'.open]_vars

\* the pool as start() builds it and get_context / recycle_all_contexts keep it
PoolShape ==
    /\ Len(bm.pool) = max_contexts
    /\ Cardinality(Range(bm.pool)) = max_contexts
    /\ Range(bm.pool) \subseteq bm.open
    /\ bm._context_idx \in 0..(Len(bm.pool) - 1)
    /\ \A c \in Range(bm.pool) : c \in DOMAIN bm.usage
                                  /\ bm.usage[c] < max_operations_per_context

\* C39: after start() and any sequence of get_context and
\* recycle_all_contexts the pool holds exactly max_contexts open contexts,
\* _context_idx is a valid index, every context of the pool has a usage count
\* below max_operations_per_context, and the usage table has entries only for
\* the contexts of the pool
C39_PoolInvariant ==
    bm.started => PoolShape /\ DOMAIN bm.usage = Range(bm.pool)

============================================================================
